---- MODULE Spec2Model ----
(***************************************************************************)
(* Model of the product-image-generator server (server with the free AI   *)
(* integrations): the upload filter, the two provider clients and the      *)
(* /generate-simple and /generate request handlers.                        *)
(*                                                                         *)
(* Every request is a process.  A handler runs without interruption up to *)
(* its next `await` of a remote call (Node runs one callback at a time),  *)
(* so each action is the code between two awaits.  The remote providers,  *)
(* the clock and the local disk are the environment: a remote call        *)
(* succeeds or fails, a write succeeds or throws, the clock ticks.        *)
(*                                                                         *)
(* Strings the code inspects character by character (file names, media    *)
(* types) are sequences of one-character strings.                          *)
(***************************************************************************)
EXTENDS Integers, Sequences, FiniteSets, TLC

\* ------------------------------------------------------------- bounds
\* Number of requests the server handles in one run.
NumReq == 2
\* Largest value of the millisecond clock Date.now().
MaxClock == 1
\* Longest uploaded file name the filter is applied to (FilterSpec).
MaxNameLen == 6

Req == 1..NumReq

\* ------------------------------------------------------------- values
\* JavaScript's undefined, for a field of the request or of a response.
Undefined == "undefined"

\* Values of req.body.service: not sent, or one of the provider names.
Services == {Undefined, "huggingface", "replicate"}

\* Values of req.body.prompt: not sent, empty, or a text.
Prompts == {Undefined, "", "red dress"}

DefaultPrompt == "Professional fashion model wearing elegant dress"

HuggingFaceLabel == "Hugging Face (FREE)"
ReplicateLabel == "Replicate (Free Tier)"

VARIABLES
    env,        \* process.env: which credentials are set
    clock,      \* Date.now()
    generated,  \* generated/: for each generated-<ts>.png, the requests that wrote it
    req,        \* per request: position in its handler, its inputs and locals
    upName,     \* FilterSpec: originalname of the file handed to fileFilter
    upMime,     \* FilterSpec: its declared mimetype
    upResult    \* FilterSpec: what fileFilter called back with

vars == <<env, clock, generated, req, upName, upMime, upResult>>

\* ------------------------------------------------------------- strings
\* String.prototype.toLowerCase on one character.
LowerChar(c) ==
    CASE c = "G" -> "g"
      [] c = "I" -> "i"
      [] c = "F" -> "f"
      [] c = "P" -> "p"
      [] c = "N" -> "n"
      [] c = "J" -> "j"
      [] OTHER -> c

toLowerCase(s) == [i \in 1..Len(s) |-> LowerChar(s[i])]

\* path.extname for a name without directory separators: from the last dot
\* to the end; empty when there is no dot, when the only dot is the first
\* character, and for the name "..".
extname(name) ==
    LET dots == {i \in 1..Len(name) : name[i] = "."}
    IN  IF dots = {} THEN <<>>
        ELSE LET startDot == CHOOSE i \in dots : \A j \in dots : j <= i
             IN  IF startDot = 1 THEN <<>>
                 ELSE IF name[1] = "." /\ startDot = Len(name) /\ startDot = 2
                      THEN <<>>
                      ELSE SubSeq(name, startDot, Len(name))

\* The alternatives of the regular expression /jpeg|jpg|png|gif|webp/.
allowedTypes ==
    { <<"j","p","e","g">>, <<"j","p","g">>, <<"p","n","g">>,
      <<"g","i","f">>, <<"w","e","b","p">> }

\* RegExp.prototype.test for an unanchored alternation of literals: some
\* alternative occurs somewhere in s.
RegexTest(words, s) ==
    \E w \in words :
        \E i \in 1..(Len(s) - Len(w) + 1) : SubSeq(s, i, i + Len(w) - 1) = w

\* upload.fileFilter: TRUE for cb(null, true), FALSE for cb(new Error(...)).
fileFilter(name, mime) ==
    LET extnameOk == RegexTest(allowedTypes, toLowerCase(extname(name)))
        mimetype == RegexTest(allowedTypes, mime)
    IN  mimetype /\ extnameOk

\* limits.fileSize of the upload middleware, in bytes.
FileSizeLimit == 10 * 1024 * 1024

\* ------------------------------------------------------------- responses
\* error.message of the errors the code throws or receives.
HFKeyMsg == "Hugging Face API key not configured"
ReplicateTokenMsg == "Replicate API token not configured"
NoServiceMsg == "No AI service configured properly"
UpstreamMsg == "Request failed"
WriteMsg == "ENOSPC: no space left on device"
FilterMsg == "Only image files are allowed!"
TooLargeMsg == "File too large"

\* A generatedImage value: undefined, the URL of generated-<ts>.png, or the
\* urls.get or the id of a prediction.
NoImage == [kind |-> Undefined, ts |-> 0]
FileImage(t) == [kind |-> "generated-file", ts |-> t]

\* No response sent yet.
NoResponse ==
    [status |-> 0, error |-> Undefined, details |-> Undefined,
     generatedImage |-> NoImage, prompt |-> Undefined,
     service |-> Undefined, state |-> Undefined]

\* res.status(400).json({ error }) of either handler.
BadRequest(msg) == [NoResponse EXCEPT !.status = 400, !.error = msg]

\* The error-handling middleware: res.status(error.status || 500).json({error}).
ErrorMiddleware(msg) == [NoResponse EXCEPT !.status = 500, !.error = msg]

\* /generate-simple: res.json({message, generatedImage, prompt, service}).
SimpleSuccessResponse(image, prompt) ==
    [NoResponse EXCEPT !.status = 200, !.generatedImage = image,
                       !.prompt = prompt, !.service = HuggingFaceLabel]

\* A /generate-simple catch block that forgets res.status(500).
SimpleFailureNoStatus(details) ==
    [NoResponse EXCEPT !.status = 200, !.error = "Failed to generate image",
                       !.details = details]

\* /generate-simple: the catch block, res.status(500).json({error, details, setup}).
SimpleFailureResponse(details) ==
    [NoResponse EXCEPT !.status = 500, !.error = "Failed to generate image",
                       !.details = details]

\* /generate: res.json({..., generatedImage, prompt, service, status: 'completed'}).
GenerateSuccessResponse(image, fullPrompt, usedService) ==
    [NoResponse EXCEPT !.status = 200, !.generatedImage = image,
                       !.prompt = fullPrompt, !.service = usedService,
                       !.state = "completed"]

\* A /generate catch block that reports the failure as a completed result.
GenerateFailureCompleted(details) ==
    [NoResponse EXCEPT !.status = 200, !.service = ReplicateLabel,
                       !.state = "completed", !.details = details]

\* /generate: the outer catch block, res.status(500).json({error, details, setup}).
GenerateFailureResponse(details) ==
    [NoResponse EXCEPT !.status = 500,
                       !.error = "Failed to generate product image",
                       !.details = details]

\* ------------------------------------------------------------- requests
\* A request that has not arrived.
IdleReq ==
    [pc |-> "idle", endpoint |-> "none", prompt |-> Undefined,
     service |-> Undefined, file |-> FALSE, fullPrompt |-> Undefined,
     hfCalls |-> 0, hfNet |-> 0, hfResult |-> "none",
     repCalls |-> 0, repNet |-> 0, repResult |-> "none",
     thrown |-> Undefined, filename |-> -1, responses |-> 0,
     res |-> NoResponse]

\* Sending a response ends the handler.
Respond(rec, response) ==
    [rec EXCEPT !.pc = "done", !.responses = @ + 1, !.res = response]

\* `!prompt`: undefined and the empty string are falsy.
PromptMissing(prompt) == prompt = Undefined \/ prompt = ""

\* `prompt || <default prompt>`.
FullPrompt(prompt) == IF PromptMissing(prompt) THEN DefaultPrompt ELSE prompt

\* `!service || service === 'huggingface'`; 'replicate' stands for every
\* other non-empty value of the field.
UsesHuggingFace(service) == service = Undefined \/ service = "huggingface"

\* A fallback test that does not look at the credential.
FallbackAlways(e) == TRUE

\* A fallback test that never falls back.
FallbackNever(e) == FALSE

\* `if (process.env.REPLICATE_API_TOKEN)` of the catch (hfError) block.
FallbackAvailable(e) == e.REPLICATE_API_TOKEN

\* generateWithHuggingFace up to its await: the call is counted; without the
\* key it throws before any request is made, with it axios.post is issued.
generateWithHuggingFace(rec, e) ==
    IF ~e.HUGGINGFACE_API_KEY
    THEN [rec EXCEPT !.hfCalls = @ + 1, !.hfResult = "fail", !.thrown = HFKeyMsg]
    ELSE [rec EXCEPT !.hfCalls = @ + 1, !.hfNet = @ + 1, !.pc = "awaitHF"]

\* generateWithReplicate up to its await, likewise.
generateWithReplicate(rec, e) ==
    IF ~e.REPLICATE_API_TOKEN
    THEN [rec EXCEPT !.repCalls = @ + 1, !.repResult = "fail",
                     !.thrown = ReplicateTokenMsg]
    ELSE [rec EXCEPT !.repCalls = @ + 1, !.repNet = @ + 1,
                     !.pc = "awaitReplicate"]

\* The catch (hfError) block of /generate: fall back to Replicate when its
\* token is set, else throw to the outer catch block.
CatchHfError(rec, e) ==
    IF FallbackAvailable(e)
    THEN LET called == generateWithReplicate(rec, e)
         IN  IF called.pc = "awaitReplicate" THEN called
             ELSE Respond(called, GenerateFailureResponse(called.thrown))
    ELSE Respond([rec EXCEPT !.thrown = NoServiceMsg],
                 GenerateFailureResponse(NoServiceMsg))

\* `result.urls?.get || result.id` for a prediction the provider returned.
ReplicateImage(result) ==
    IF result.urlsGet THEN [kind |-> "prediction-url", ts |-> 0]
    ELSE IF result.id THEN [kind |-> "prediction-id", ts |-> 0]
    ELSE NoImage

\* Predictions the provider returns: an id always, urls.get not necessarily.
Predictions == [urlsGet : BOOLEAN, id : {TRUE}]

\* fs.writeFileSync(path.join('generated', `generated-${Date.now()}.png`), ...).
WriteGenerated(files, t, r) == [files EXCEPT ![t] = @ \cup {r}]

\* ------------------------------------------------------------- uploads
\* Media types declared for an upload.
ImageGif == <<"i","m","a","g","e","/","g","i","f">>
ImagePng == <<"i","m","a","g","e","/","p","n","g">>
TextPlain == <<"t","e","x","t","/","p","l","a","i","n">>
MimeSamples == {ImageGif, ImagePng, TextPlain}

\* The multipart field `image` of a /generate request: absent, or a file
\* with its original name, declared media type and size in bytes.
NoFile == [name |-> <<>>, mime |-> <<>>, size |-> -1]
File(name, mime, size) == [name |-> name, mime |-> mime, size |-> size]
FileSamples ==
    { File(<<"a",".","g","i","f">>, ImageGif, FileSizeLimit),
      File(<<"a",".","G","I","F">>, ImagePng, 1),
      File(<<"a",".","g","i","f","t">>, ImageGif, 1),
      File(<<"a",".","t","x","t">>, ImageGif, 1),
      File(<<"a",".","g","i","f">>, TextPlain, 1),
      File(<<"a",".","g","i","f">>, ImageGif, FileSizeLimit + 1) }
Uploads == {NoFile} \cup FileSamples

\* upload.single('image'): "next" when the handler is to run (with or without
\* req.file), else the message of the error passed to the error middleware.
UploadSingle(upload) ==
    IF upload = NoFile THEN "next"
    ELSE IF ~fileFilter(upload.name, upload.mime) THEN FilterMsg
    ELSE IF upload.size > FileSizeLimit THEN TooLargeMsg
    ELSE "next"

\* In a request record, `file` says that the upload middleware stored the
\* upload under uploads/ and set req.file; the handlers read nothing else of it.

\* ------------------------------------------------------------- actions
\* Requests are numbered in the order they arrive.
Arrives(r) ==
    /\ req[r].pc = "idle"
    /\ \A q \in Req : q < r => req[q].pc # "idle"

\* POST /generate-simple up to the await of generateWithHuggingFace.
PostGenerateSimple(r) ==
    /\ Arrives(r)
    /\ \E prompt \in Prompts :
        LET rec == [IdleReq EXCEPT !.endpoint = "generate-simple",
                                   !.prompt = prompt]
        IN  req' = [req EXCEPT ![r] =
                IF PromptMissing(prompt)
                THEN Respond(rec, BadRequest("Prompt is required"))
                ELSE LET called == generateWithHuggingFace(rec, env)
                     IN  IF called.pc = "awaitHF" THEN called
                         ELSE Respond(called, SimpleFailureResponse(called.thrown))]
    /\ UNCHANGED <<env, clock, generated, upName, upMime, upResult>>

\* POST /generate-simple from the return of generateWithHuggingFace on: the
\* remote call answers with bytes or fails, the write succeeds or throws.
SimpleHuggingFaceReturns(r) ==
    /\ req[r].pc = "awaitHF"
    /\ req[r].endpoint = "generate-simple"
    /\ \E ok \in BOOLEAN, writeOk \in BOOLEAN :
        IF ok /\ writeOk
        THEN /\ generated' = WriteGenerated(generated, clock, r)
             /\ req' = [req EXCEPT ![r] =
                    Respond([@ EXCEPT !.hfResult = "ok", !.filename = clock],
                            SimpleSuccessResponse(FileImage(clock), @.prompt))]
        ELSE /\ generated' = generated
             /\ req' = [req EXCEPT ![r] =
                    IF ok
                    THEN Respond([@ EXCEPT !.hfResult = "ok", !.thrown = WriteMsg],
                                 SimpleFailureResponse(WriteMsg))
                    ELSE Respond([@ EXCEPT !.hfResult = "fail", !.thrown = UpstreamMsg],
                                 SimpleFailureResponse(UpstreamMsg))]
    /\ UNCHANGED <<env, clock, upName, upMime, upResult>>

\* POST /generate: the upload middleware, then the handler up to its first
\* await (of generateWithHuggingFace, or of generateWithReplicate when the
\* Hugging Face key is missing and the fallback is taken at once).  The
\* handler reads req.body only after the req.file check, and uses `prompt`
\* only to compute fullPrompt.
PostGenerate(r) ==
    /\ Arrives(r)
    /\ \E upload \in Uploads, prompt \in Prompts, service \in Services :
        LET rec == [IdleReq EXCEPT !.endpoint = "generate"]
            multer == UploadSingle(upload)
            withFile == [rec EXCEPT !.file = TRUE, !.service = service,
                                    !.fullPrompt = FullPrompt(prompt)]
        IN  req' = [req EXCEPT ![r] =
                IF multer # "next" THEN Respond(rec, ErrorMiddleware(multer))
                ELSE IF upload = NoFile
                THEN Respond(rec, BadRequest("No image file provided"))
                ELSE IF UsesHuggingFace(service)
                THEN LET called == generateWithHuggingFace(withFile, env)
                     IN  IF called.pc = "awaitHF" THEN called
                         ELSE CatchHfError(called, env)
                ELSE Respond(withFile,
                             GenerateSuccessResponse(NoImage, withFile.fullPrompt,
                                                     Undefined))]
    /\ UNCHANGED <<env, clock, generated, upName, upMime, upResult>>

\* POST /generate from the return of generateWithHuggingFace on: on bytes
\* that are written, the success response; on a remote failure or a failed
\* write (both inside the inner try), the catch (hfError) block.
GenerateHuggingFaceReturns(r) ==
    /\ req[r].pc = "awaitHF"
    /\ req[r].endpoint = "generate"
    /\ \E ok \in BOOLEAN, writeOk \in BOOLEAN :
        IF ok /\ writeOk
        THEN /\ generated' = WriteGenerated(generated, clock, r)
             /\ req' = [req EXCEPT ![r] =
                    Respond([@ EXCEPT !.hfResult = "ok", !.filename = clock],
                            GenerateSuccessResponse(FileImage(clock), @.fullPrompt,
                                                    HuggingFaceLabel))]
        ELSE /\ generated' = generated
             /\ req' = [req EXCEPT ![r] =
                    IF ok
                    THEN CatchHfError([@ EXCEPT !.hfResult = "ok",
                                                !.thrown = WriteMsg], env)
                    ELSE CatchHfError([@ EXCEPT !.hfResult = "fail",
                                                !.thrown = UpstreamMsg], env)]
    /\ UNCHANGED <<env, clock, upName, upMime, upResult>>

\* POST /generate from the return of generateWithReplicate on: the success
\* response with the prediction's location, or the outer catch block.
GenerateReplicateReturns(r) ==
    /\ req[r].pc = "awaitReplicate"
    /\ \E ok \in BOOLEAN, result \in Predictions :
        req' = [req EXCEPT ![r] =
            IF ok
            THEN Respond([@ EXCEPT !.repResult = "ok"],
                         GenerateSuccessResponse(ReplicateImage(result),
                                                 @.fullPrompt, ReplicateLabel))
            ELSE Respond([@ EXCEPT !.repResult = "fail", !.thrown = UpstreamMsg],
                         GenerateFailureResponse(UpstreamMsg))]
    /\ UNCHANGED <<env, clock, generated, upName, upMime, upResult>>

\* The millisecond clock advances.
Tick ==
    /\ clock < MaxClock
    /\ clock' = clock + 1
    /\ UNCHANGED <<env, generated, req, upName, upMime, upResult>>

\* The server after start-up: any configuration of the two credentials, an
\* empty generated/ directory, no request yet.
Init ==
    /\ env \in [HUGGINGFACE_API_KEY : BOOLEAN, REPLICATE_API_TOKEN : BOOLEAN]
    /\ clock = 0
    /\ generated = [t \in 0..MaxClock |-> {}]
    /\ req = [r \in Req |-> IdleReq]
    /\ upName = <<>>
    /\ upMime = <<>>
    /\ upResult = "pending"

Next ==
    \/ \E r \in Req : PostGenerateSimple(r)
    \/ \E r \in Req : SimpleHuggingFaceReturns(r)
    \/ \E r \in Req : PostGenerate(r)
    \/ \E r \in Req : GenerateHuggingFaceReturns(r)
    \/ \E r \in Req : GenerateReplicateReturns(r)
    \/ Tick

Spec == Init /\ [][Next]_vars

\* ------------------------------------------------------------- the filter alone
\* Characters of the file names handed to the filter.
NameChars == {".", "g", "i", "f", "F"}
FileNames == UNION {[1..n -> NameChars] : n \in 0..MaxNameLen}

\* A file with any name over NameChars and any of the media types arrives
\* at the upload middleware.
FilterInit ==
    /\ env = [HUGGINGFACE_API_KEY |-> FALSE, REPLICATE_API_TOKEN |-> FALSE]
    /\ clock = 0
    /\ generated = [t \in 0..MaxClock |-> {}]
    /\ req = [r \in Req |-> IdleReq]
    /\ upName \in FileNames
    /\ upMime \in MimeSamples
    /\ upResult = "pending"

\* multer calls fileFilter(req, file, cb) and the filter calls back.
ApplyFileFilter ==
    /\ upResult = "pending"
    /\ upResult' = IF fileFilter(upName, upMime) THEN "accepted" ELSE "rejected"
    /\ UNCHANGED <<env, clock, generated, req, upName, upMime>>

FilterNext == ApplyFileFilter

FilterSpec == FilterInit /\ [][FilterNext]_vars

\* ------------------------------------------------------------- properties
Done(r) == req[r].pc = "done"

\* The handler of /generate got past the req.file check.
InGenerate(r) == req[r].endpoint = "generate" /\ req[r].file

InSimple(r) == req[r].endpoint = "generate-simple"

\* The success response of /generate.
Completed(r) == req[r].res.status = 200 /\ req[r].res.state = "completed"

\* Request r has written a file to generated/.
Wrote(r) == \E t \in 0..MaxClock : r \in generated[t]

\* C1 as stated: a /generate request with service 'huggingface' whose
\* Service A invocation failed never invokes Service B and ends in failure.
C1_StrictExplicitChoice ==
    \A r \in Req :
        (InGenerate(r) /\ req[r].service = "huggingface" /\ req[r].hfResult = "fail")
            => /\ req[r].repCalls = 0
               /\ Done(r)
               /\ req[r].res.status = 500

\* C1 as amended: a /generate request with service 'huggingface' whose
\* Service A invocation failed invokes Service B exactly when
\* REPLICATE_API_TOKEN is set; when it is not set, Service B is not invoked
\* and the request ends in the failure response.
C1_ExplicitChoiceFallsBack ==
    \A r \in Req :
        (InGenerate(r) /\ req[r].service = "huggingface" /\ req[r].hfResult = "fail")
            => /\ req[r].repCalls = (IF env.REPLICATE_API_TOKEN THEN 1 ELSE 0)
               /\ ~env.REPLICATE_API_TOKEN
                    => Done(r) /\ req[r].res.status = 500 /\ req[r].repNet = 0

\* An explicit 'huggingface' request whose Service A call failed and that
\* completed through Service B.
C1_Witness ==
    \E r \in Req :
        /\ InGenerate(r) /\ req[r].service = "huggingface"
        /\ req[r].hfResult = "fail" /\ req[r].repCalls = 1
        /\ req[r].repResult = "ok" /\ Completed(r)

\* C2: generateWithReplicate is invoked only with REPLICATE_API_TOKEN set,
\* and only after Service A was tried; without the token no request ever
\* calls Service B, locally or remotely.
C2_FallbackNeedsToken ==
    \A r \in Req :
        /\ req[r].repCalls > 0 => env.REPLICATE_API_TOKEN /\ req[r].hfCalls = 1
        /\ ~env.REPLICATE_API_TOKEN => req[r].repCalls = 0 /\ req[r].repNet = 0

\* Service A failed on a request, the token is set, and Service B was called.
C2_Witness ==
    \E r \in Req :
        /\ req[r].hfResult = "fail" /\ env.REPLICATE_API_TOKEN
        /\ req[r].repCalls = 1 /\ req[r].repNet = 1

\* C3: a finished /generate request with an image, no `service` and Service A
\* failed: with the token set, the response is the success response labelled
\* Replicate exactly when the Service B call succeeded, and the 500 failure
\* response otherwise; without the token it is the 500 failure response.
C3_DefaultFallbackOutcome ==
    \A r \in Req :
        (Done(r) /\ InGenerate(r) /\ req[r].service = Undefined
                 /\ req[r].hfResult = "fail")
            => IF env.REPLICATE_API_TOKEN
               THEN /\ (Completed(r) /\ req[r].res.service = ReplicateLabel)
                            <=> req[r].repResult = "ok"
                    /\ req[r].repResult # "ok"
                            => req[r].res.status = 500 /\ req[r].res.error # Undefined
               ELSE req[r].res.status = 500 /\ req[r].res.error # Undefined

\* A request without `service` that completed through Service B after
\* Service A failed.
C3_Witness ==
    \E r \in Req :
        /\ Done(r) /\ InGenerate(r) /\ req[r].service = Undefined
        /\ req[r].hfResult = "fail" /\ env.REPLICATE_API_TOKEN
        /\ req[r].repResult = "ok" /\ Completed(r)
        /\ req[r].res.service = ReplicateLabel

\* C4 as stated: a finished /generate request has invoked the provider its
\* `service` field selects: Service B and not Service A for 'replicate',
\* Service A for 'huggingface' and for no `service`.
C4_SelectedProviderInvoked ==
    \A r \in Req :
        (Done(r) /\ InGenerate(r))
            => /\ req[r].service = "replicate"
                    => req[r].repCalls >= 1 /\ req[r].hfCalls = 0
               /\ req[r].service \in {Undefined, "huggingface"}
                    => req[r].hfCalls >= 1

\* C5 as stated: every success response names a generated image and a
\* service; with the Hugging Face label the request has written that file,
\* with the Replicate label the image is the prediction's location.
C5_CompletedHasOutput ==
    \A r \in Req :
        (Done(r) /\ req[r].res.status = 200)
            => /\ req[r].res.generatedImage.kind # Undefined
               /\ req[r].res.service # Undefined
               /\ req[r].res.service = HuggingFaceLabel
                    => /\ req[r].res.generatedImage.kind = "generated-file"
                       /\ r \in generated[req[r].res.generatedImage.ts]
               /\ req[r].res.service = ReplicateLabel
                    => req[r].res.generatedImage.kind
                            \in {"prediction-url", "prediction-id"}

\* C6 as stated: a finished request has sent exactly one response; when no
\* provider invocation succeeded the response is non-2xx with an error body,
\* and a 2xx response follows a successful provider invocation.
C6_FailuresAreReported ==
    \A r \in Req :
        Done(r)
            => /\ req[r].responses = 1
               /\ (req[r].hfResult # "ok" /\ req[r].repResult # "ok")
                    => req[r].res.status >= 400 /\ req[r].res.error # Undefined
               /\ req[r].res.status \in 200..299
                    => req[r].hfResult = "ok" \/ req[r].repResult = "ok"

\* C7 as stated: two requests that both persisted a Service A result wrote
\* different names, so no generated file has two writers.
C7_GeneratedNamesUnique ==
    /\ \A r1, r2 \in Req :
        (r1 # r2 /\ req[r1].filename # -1 /\ req[r2].filename # -1)
            => req[r1].filename # req[r2].filename
    /\ \A t \in 0..MaxClock : Cardinality(generated[t]) <= 1

\* The filter C8 describes: the whole lower-cased extension is an entry of
\* the allow-list and the media type matches the allow-list.
AllowListed(name, mime) ==
    /\ \E w \in allowedTypes : toLowerCase(extname(name)) = <<".">> \o w
    /\ RegexTest(allowedTypes, mime)

\* C8 as stated: the filter accepts a file exactly when its lower-cased
\* extension is an entry of the allow-list and its media type matches.
C8_FilterIsAllowList ==
    upResult # "pending" => (upResult = "accepted" <=> AllowListed(upName, upMime))

\* C9: a /generate-simple request never calls Service B and calls Service A
\* at most once; finished without a prompt it answered 400 'Prompt is
\* required' with no provider call and no file written; finished with a
\* prompt it called Service A once and answered 200 exactly when the bytes
\* came back and were written, 500 otherwise.
C9_SimpleUsesOnlyServiceA ==
    \A r \in Req :
        InSimple(r)
            => /\ req[r].repCalls = 0 /\ req[r].repNet = 0
               /\ req[r].hfCalls <= 1 /\ req[r].hfNet <= 1
               /\ Done(r) =>
                    IF req[r].prompt \in {Undefined, ""}
                    THEN /\ req[r].res.status = 400
                         /\ req[r].res.error = "Prompt is required"
                         /\ req[r].hfCalls = 0 /\ req[r].hfNet = 0
                         /\ ~Wrote(r)
                    ELSE /\ req[r].hfCalls = 1
                         /\ req[r].res.status \in {200, 500}
                         /\ req[r].res.status = 200
                                <=> (req[r].hfResult = "ok" /\ Wrote(r))
                         /\ req[r].hfResult = "fail" => req[r].res.status = 500

\* A /generate-simple request whose Service A call failed while Service B
\* was configured: answered 500, Service B untouched.
C9_Witness ==
    \E r \in Req :
        /\ InSimple(r) /\ Done(r) /\ env.REPLICATE_API_TOKEN
        /\ req[r].hfNet = 1 /\ req[r].hfResult = "fail"
        /\ req[r].res.status = 500 /\ req[r].repCalls = 0

\* C10 as stated: with neither credential set no request issues a remote
\* call and every finished request got a failure response.
C10_UnconfiguredFailsFast ==
    (~env.HUGGINGFACE_API_KEY /\ ~env.REPLICATE_API_TOKEN)
        => \A r \in Req :
            /\ req[r].hfNet = 0 /\ req[r].repNet = 0
            /\ Done(r) => req[r].res.status >= 400

====
